---- MODULE Spec2Model ----
(***************************************************************************)
(* Model of the swagger endpoint overlap checker (script.js and its        *)
(* refactored twin).  One run of main(): the parsed specification document *)
(* and the command line are the inputs; main extracts the endpoint tree    *)
(* and then either scans it for internal overlaps (--checkAll) or checks   *)
(* the given path and method against it.                                   *)
(*                                                                         *)
(* Strings are sequences of one-character strings, so that replace, split, *)
(* startsWith and toLowerCase are computed character by character.         *)
(***************************************************************************)
EXTENDS Naturals, Sequences, FiniteSets

VARIABLES
    swaggerObject,      \* the parsed document handed to extractEndpointsWithMethods
    pathToCheck,        \* argv.path
    method,             \* argv.method
    checkAll,           \* argv.checkAll
    pc,                 \* position of main: "start", "extracted", "done", "error"
    endpoints,          \* the endpoint tree: sequence of [path, methods] in key order
    overlappingPath,    \* value returned by isPathOverlapping in the single check
    internalOverlaps,   \* list returned by findOverlappingEndpoints
    output              \* which console message main printed

vars == <<swaggerObject, pathToCheck, method, checkAll, pc, endpoints,
          overlappingPath, internalOverlaps, output>>

\* Largest number of path keys of a document.
MaxPaths == 2

-----------------------------------------------------------------------------
(* JavaScript values that flow through the checked functions. *)

JsFalse == [type |-> "boolean", str |-> <<>>]
JsNull == [type |-> "null", str |-> <<>>]
JsString(s) == [type |-> "string", str |-> s]

\* JavaScript truthiness: false, null and the empty string are falsy.
Truthy(v) == v.type = "string" /\ Len(v.str) > 0

-----------------------------------------------------------------------------
(* Input alphabet: the paths and methods the documents and command lines   *)
(* of the model are made of.                                               *)

S_empty == <<>>
S_root == <<"/">>
S_a_id == <<"/", "a", "/", "{", "i", "d", "}">>
S_a_b == <<"/", "a", "/", "b">>
S_a_b_slash == <<"/", "a", "/", "b", "/">>
S_a_b_c == <<"/", "a", "/", "b", "/", "c">>
S_a_slash2 == <<"/", "a", "/", "/">>
S_c == <<"/", "c">>
S_proto == <<"_", "_", "p", "r", "o", "t", "o", "_", "_">>
S_hasOwnProperty ==
    <<"h", "a", "s", "O", "w", "n", "P", "r", "o", "p", "e", "r", "t", "y">>

M_get == <<"g", "e", "t">>
M_GET == <<"G", "E", "T">>
M_post == <<"p", "o", "s", "t">>
M_POST == <<"P", "O", "S", "T">>
M_delete == <<"d", "e", "l", "e", "t", "e">>

\* Path keys a document may declare.
KeyPool == {S_empty, S_root, S_a_id, S_a_b, S_a_b_slash, S_proto, S_hasOwnProperty}

\* Method-key lists a path item may declare (Object.keys order).
MethodLists == {<<>>, <<M_get, M_post>>, <<M_GET>>}

\* Values of --path and --method.
PathArgs == {S_root, S_a_b, S_a_b_slash, S_a_id, S_a_b_c, S_a_slash2}
MethodArgs == {M_get, M_GET, M_POST, M_delete, <<>>}

\* The paths objects of the documents: up to MaxPaths distinct keys, each
\* with its method keys.
PathsObjects ==
    UNION {{ps \in [1..n -> [path : KeyPool, methods : MethodLists]] :
               \A i, j \in 1..n : i # j => ps[i].path # ps[j].path} : n \in 0..MaxPaths}

\* Three-key paths objects: a parameterized route declared before and after
\* the literal route it overlaps, with an unrelated route; and three routes
\* that overlap one another pairwise, one of them with a trailing '/'.
ExamplePathsObjects ==
    {<<[path |-> S_a_b, methods |-> <<M_get, M_post>>],
       [path |-> S_a_b_slash, methods |-> <<M_GET>>],
       [path |-> S_a_id, methods |-> <<>>]>>} \cup
    {<<[path |-> S_a_id, methods |-> <<M_get, M_post>>],
       [path |-> S_a_b, methods |-> <<M_get, M_post>>],
       [path |-> S_c, methods |-> <<M_GET>>]>>,
     <<[path |-> S_a_b, methods |-> <<M_get, M_post>>],
       [path |-> S_a_id, methods |-> <<M_GET>>],
       [path |-> S_c, methods |-> <<M_get, M_post>>]>>}

\* A document is JSON null, an object without a paths member, or an object
\* with one.
Documents ==
    {[kind |-> "null", hasPaths |-> FALSE, paths |-> <<>>],
     [kind |-> "object", hasPaths |-> FALSE, paths |-> <<>>]}
    \cup {[kind |-> "object", hasPaths |-> TRUE, paths |-> ps] :
              ps \in PathsObjects \cup ExamplePathsObjects}

-----------------------------------------------------------------------------
(* String primitives. *)

\* path.replace(/\/$/, ''): removes one '/' at the end of the string.
normalizePath(path) ==
    IF Len(path) > 0 /\ path[Len(path)] = "/"
    THEN SubSeq(path, 1, Len(path) - 1)
    ELSE path

UpperCaseLetters ==
    <<"A", "B", "C", "D", "E", "F", "G", "H", "I", "J", "K", "L", "M",
      "N", "O", "P", "Q", "R", "S", "T", "U", "V", "W", "X", "Y", "Z">>
LowerCaseLetters ==
    <<"a", "b", "c", "d", "e", "f", "g", "h", "i", "j", "k", "l", "m",
      "n", "o", "p", "q", "r", "s", "t", "u", "v", "w", "x", "y", "z">>

\* The lower-case form of one character: every letter A..Z is folded, every
\* other character of the alphabet is kept.
LowerChar(c) ==
    IF \E n \in 1..Len(UpperCaseLetters) : UpperCaseLetters[n] = c
    THEN LowerCaseLetters[CHOOSE n \in 1..Len(UpperCaseLetters) : UpperCaseLetters[n] = c]
    ELSE c

\* String.prototype.toLowerCase
toLowerCase(s) == [i \in 1..Len(s) |-> LowerChar(s[i])]

\* String.prototype.startsWith, for a one-character prefix
startsWith(s, c) == Len(s) > 0 /\ s[1] = c

\* Array.prototype.includes
includes(arr, x) == \E i \in 1..Len(arr) : arr[i] = x

RECURSIVE splitFrom(_, _, _, _)
splitFrom(s, i, cur, acc) ==
    IF i > Len(s) THEN Append(acc, cur)
    ELSE IF s[i] = "/" THEN splitFrom(s, i + 1, <<>>, Append(acc, cur))
    ELSE splitFrom(s, i + 1, Append(cur, s[i]), acc)

\* s.split('/')
split(s) == splitFrom(s, 1, <<>>, <<>>)

-----------------------------------------------------------------------------
(* extractEndpointsWithMethods *)

\* endpointTree[path] = keys: overwrites the property if present, otherwise
\* adds it after the existing ones.  Assigning to "__proto__" sets the
\* prototype of the tree and creates no property.
SetProp(tree, path, keys) ==
    IF path = S_proto THEN tree
    ELSE IF \E i \in 1..Len(tree) : tree[i].path = path
    THEN [i \in 1..Len(tree) |->
             IF tree[i].path = path THEN [path |-> path, methods |-> keys] ELSE tree[i]]
    ELSE Append(tree, [path |-> path, methods |-> keys])

\* paths.hasOwnProperty(path): the method is looked up on paths itself, so a
\* declared key "hasOwnProperty" (an object, not a function) makes the call
\* throw a TypeError.
hasOwnProperty(paths, path) ==
    IF \E i \in 1..Len(paths) : paths[i].path = S_hasOwnProperty
    THEN [threw |-> TRUE, value |-> FALSE]
    ELSE [threw |-> FALSE, value |-> \E i \in 1..Len(paths) : paths[i].path = path]

RECURSIVE extractLoop(_, _, _)
extractLoop(paths, i, endpointTree) ==
    IF i > Len(paths) THEN [threw |-> FALSE, value |-> endpointTree]
    ELSE IF hasOwnProperty(paths, paths[i].path).threw
    THEN [threw |-> TRUE, value |-> <<>>]
    ELSE IF hasOwnProperty(paths, paths[i].path).value
    THEN extractLoop(paths, i + 1,
             SetProp(endpointTree, paths[i].path, paths[i].methods))
    ELSE extractLoop(paths, i + 1, endpointTree)

\* Mutant: the extraction normalizes the path keys it stores.
RECURSIVE extractLoopNormalizing(_, _, _)
extractLoopNormalizing(paths, i, endpointTree) ==
    IF i > Len(paths) THEN [threw |-> FALSE, value |-> endpointTree]
    ELSE IF hasOwnProperty(paths, paths[i].path).threw
    THEN [threw |-> TRUE, value |-> <<>>]
    ELSE extractLoopNormalizing(paths, i + 1,
             SetProp(endpointTree, normalizePath(paths[i].path), paths[i].methods))

extractNormalizing(obj) ==
    IF obj.kind = "null" THEN [threw |-> TRUE, value |-> <<>>]
    ELSE extractLoopNormalizing(IF obj.hasPaths THEN obj.paths ELSE <<>>, 1, <<>>)

\* Mutant: the extraction rejects a document without a paths member.
extractStrict(obj) ==
    IF obj.kind = "null" \/ ~obj.hasPaths THEN [threw |-> TRUE, value |-> <<>>]
    ELSE extractLoop(obj.paths, 1, <<>>)

\* Reading .paths of null throws a TypeError; for..in over an undefined
\* paths member iterates nothing.
extractEndpointsWithMethods(obj) ==
    IF obj.kind = "null" THEN [threw |-> TRUE, value |-> <<>>]
    ELSE extractLoop(IF obj.hasPaths THEN obj.paths ELSE <<>>, 1, <<>>)

-----------------------------------------------------------------------------
(* pathIncludesSegments *)

RECURSIVE segmentsLoop(_, _, _)
segmentsLoop(givenSegments, existingSegments, i) ==
    IF i > Len(givenSegments) THEN TRUE
    ELSE IF givenSegments[i] # existingSegments[i]
            /\ ~startsWith(existingSegments[i], "{")
    THEN FALSE
    ELSE segmentsLoop(givenSegments, existingSegments, i + 1)

\* Mutant: a parameter segment on either side absorbs the other side.
RECURSIVE segmentsLoopSymmetric(_, _, _)
segmentsLoopSymmetric(givenSegments, existingSegments, i) ==
    IF i > Len(givenSegments) THEN TRUE
    ELSE IF givenSegments[i] # existingSegments[i]
            /\ ~startsWith(existingSegments[i], "{")
            /\ ~startsWith(givenSegments[i], "{")
    THEN FALSE
    ELSE segmentsLoopSymmetric(givenSegments, existingSegments, i + 1)

pathIncludesSegmentsSymmetric(givenPath, existingPath) ==
    LET givenSegments == split(givenPath)
        existingSegments == split(existingPath)
    IN  IF Len(givenSegments) # Len(existingSegments) THEN FALSE
        ELSE segmentsLoopSymmetric(givenSegments, existingSegments, 1)

pathIncludesSegments(givenPath, existingPath) ==
    LET givenSegments == split(givenPath)
        existingSegments == split(existingPath)
    IN  IF Len(givenSegments) # Len(existingSegments) THEN FALSE
        ELSE segmentsLoop(givenSegments, existingSegments, 1)

-----------------------------------------------------------------------------
(* isPathOverlapping *)

\* The test of one entry of existingPaths.
entryMatches(givenPath, normalizedGivenMethod, entry) ==
    LET normalizedPath == normalizePath(entry.path)
    IN  /\ (givenPath = normalizedPath \/ pathIncludesSegments(givenPath, normalizedPath))
        /\ (~Truthy(normalizedGivenMethod)
              \/ includes(entry.methods, normalizedGivenMethod.str))

RECURSIVE entriesLoop(_, _, _, _)
entriesLoop(givenPath, normalizedGivenMethod, existingPaths, i) ==
    IF i > Len(existingPaths) THEN JsFalse
    ELSE IF entryMatches(givenPath, normalizedGivenMethod, existingPaths[i])
    THEN JsString(normalizePath(existingPaths[i].path))
    ELSE entriesLoop(givenPath, normalizedGivenMethod, existingPaths, i + 1)

\* Mutant: the loop does not return at the first match, so the last one wins.
RECURSIVE entriesLoopLast(_, _, _, _, _)
entriesLoopLast(givenPath, normalizedGivenMethod, existingPaths, i, found) ==
    IF i > Len(existingPaths) THEN found
    ELSE entriesLoopLast(givenPath, normalizedGivenMethod, existingPaths, i + 1,
             IF entryMatches(givenPath, normalizedGivenMethod, existingPaths[i])
             THEN JsString(normalizePath(existingPaths[i].path))
             ELSE found)

isPathOverlappingLast(givenPath, givenMethod, existingPaths) ==
    entriesLoopLast(normalizePath(givenPath),
                    IF Truthy(givenMethod) THEN JsString(toLowerCase(givenMethod.str))
                    ELSE JsNull,
                    existingPaths, 1, JsFalse)

\* Mutant: the method condition is dropped.
isPathOverlappingAnyMethod(givenPath, givenMethod, existingPaths) ==
    entriesLoop(normalizePath(givenPath), JsNull, existingPaths, 1)

isPathOverlapping(givenPath, givenMethod, existingPaths) ==
    entriesLoop(normalizePath(givenPath),
                IF Truthy(givenMethod) THEN JsString(toLowerCase(givenMethod.str))
                ELSE JsNull,
                existingPaths, 1)

-----------------------------------------------------------------------------
(* findOverlappingEndpoints *)

RECURSIVE innerLoop(_, _, _, _)
innerLoop(tree, index, i, overlaps) ==
    IF i > Len(tree) THEN overlaps
    ELSE innerLoop(tree, index, i + 1,
             IF Truthy(isPathOverlapping(tree[index].path, JsNull, <<tree[i]>>))
             THEN Append(overlaps, [path1 |-> tree[index].path, path2 |-> tree[i].path])
             ELSE overlaps)

RECURSIVE forEachPath(_, _, _)
forEachPath(tree, index, overlaps) ==
    IF index > Len(tree) THEN overlaps
    ELSE forEachPath(tree, index + 1, innerLoop(tree, index, index + 1, overlaps))

\* Mutant: the inner loop starts at the outer index, so every key is also
\* checked against itself.
RECURSIVE forEachPathFromIndex(_, _, _)
forEachPathFromIndex(tree, index, overlaps) ==
    IF index > Len(tree) THEN overlaps
    ELSE forEachPathFromIndex(tree, index + 1, innerLoop(tree, index, index, overlaps))

findOverlappingEndpointsFromIndex(endpointsWithMethods) ==
    forEachPathFromIndex(endpointsWithMethods, 1, <<>>)

\* Mutant: the scan passes the first method of the outer path to the check.
RECURSIVE innerLoopWithMethod(_, _, _, _)
innerLoopWithMethod(tree, index, i, overlaps) ==
    IF i > Len(tree) THEN overlaps
    ELSE innerLoopWithMethod(tree, index, i + 1,
             IF Truthy(isPathOverlapping(tree[index].path,
                           IF Len(tree[index].methods) > 0
                           THEN JsString(tree[index].methods[1]) ELSE JsNull,
                           <<tree[i]>>))
             THEN Append(overlaps, [path1 |-> tree[index].path, path2 |-> tree[i].path])
             ELSE overlaps)

RECURSIVE forEachPathWithMethod(_, _, _)
forEachPathWithMethod(tree, index, overlaps) ==
    IF index > Len(tree) THEN overlaps
    ELSE forEachPathWithMethod(tree, index + 1,
             innerLoopWithMethod(tree, index, index + 1, overlaps))

findOverlappingEndpointsWithMethod(endpointsWithMethods) ==
    forEachPathWithMethod(endpointsWithMethods, 1, <<>>)

findOverlappingEndpoints(endpointsWithMethods) ==
    forEachPath(endpointsWithMethods, 1, <<>>)

-----------------------------------------------------------------------------
(* main *)

Init ==
    /\ swaggerObject \in Documents
    /\ checkAll \in BOOLEAN
    /\ pathToCheck \in (IF checkAll THEN {S_root} ELSE PathArgs)
    /\ method \in (IF checkAll THEN {M_get} ELSE MethodArgs)
    /\ pc = "start"
    /\ endpoints = <<>>
    /\ overlappingPath = JsNull
    /\ internalOverlaps = <<>>
    /\ output = "none"

\* extractEndpointsWithMethods returns the tree.
Extract ==
    /\ pc = "start"
    /\ ~extractEndpointsWithMethods(swaggerObject).threw
    /\ endpoints' = extractEndpointsWithMethods(swaggerObject).value
    /\ pc' = "extracted"
    /\ UNCHANGED <<swaggerObject, pathToCheck, method, checkAll,
                   overlappingPath, internalOverlaps, output>>

\* extractEndpointsWithMethods throws; main's catch prints the error.
ExtractThrows ==
    /\ pc = "start"
    /\ extractEndpointsWithMethods(swaggerObject).threw
    /\ pc' = "error"
    /\ output' = "Error"
    /\ UNCHANGED <<swaggerObject, pathToCheck, method, checkAll, endpoints,
                   overlappingPath, internalOverlaps>>

displayInternalOverlaps ==
    /\ pc = "extracted"
    /\ checkAll
    /\ internalOverlaps' = findOverlappingEndpoints(endpoints)
    /\ output' = IF Len(internalOverlaps') > 0
                 THEN "Overlapping endpoints found"
                 ELSE "No internal overlapping endpoints found"
    /\ pc' = "done"
    /\ UNCHANGED <<swaggerObject, pathToCheck, method, checkAll, endpoints,
                   overlappingPath>>

displaySpecificOverlap ==
    /\ pc = "extracted"
    /\ ~checkAll
    /\ overlappingPath' = isPathOverlapping(pathToCheck, JsString(method), endpoints)
    /\ output' = IF Truthy(overlappingPath') THEN "overlaps" ELSE "does not overlap"
    /\ pc' = "done"
    /\ UNCHANGED <<swaggerObject, pathToCheck, method, checkAll, endpoints,
                   internalOverlaps>>

Next ==
    \/ Extract
    \/ ExtractThrows
    \/ displayInternalOverlaps
    \/ displaySpecificOverlap

Spec == Init /\ [][Next]_vars

-----------------------------------------------------------------------------
(* Vocabulary of the properties, stated without the loops of the code.     *)

Min(S) == CHOOSE x \in S : \A y \in S : x <= y
Max(S) == CHOOSE x \in S : \A y \in S : x >= y

\* The segments of a path, read off the positions of its '/' characters.
SlashPositions(s) == {i \in 1..Len(s) : s[i] = "/"}
NumSegments(s) == Cardinality(SlashPositions(s)) + 1
SegmentIndices(s, k) ==
    {i \in 1..Len(s) :
        s[i] # "/" /\ Cardinality({q \in SlashPositions(s) : q < i}) = k - 1}
SegmentText(s, k) ==
    IF SegmentIndices(s, k) = {} THEN <<>>
    ELSE SubSeq(s, Min(SegmentIndices(s, k)), Max(SegmentIndices(s, k)))
IsParameter(seg) == seg # <<>> /\ Head(seg) = "{"

\* Same number of segments, and at each position the segments are equal or
\* the segment of `wild` is a parameter.
ShapeCovers(wild, other) ==
    /\ NumSegments(wild) = NumSegments(other)
    /\ \A k \in 1..NumSegments(wild) :
          \/ SegmentText(wild, k) = SegmentText(other, k)
          \/ IsParameter(SegmentText(wild, k))

HasTrailingSlash(p) == Len(p) > 0 /\ p[Len(p)] = "/"
Declared == IF swaggerObject.hasPaths THEN swaggerObject.paths ELSE <<>>
DeclaresKey(k) == \E i \in 1..Len(Declared) : Declared[i].path = k
IsStorable(entry) == entry.path # S_proto
\* The declared entries that can become properties of the tree.
Storable == SelectSeq(Declared, IsStorable)
Keys == {endpoints[i].path : i \in 1..Len(endpoints)}
SingleDone == pc = "done" /\ ~checkAll
AllDone == pc = "done" /\ checkAll
Record(i, j) == [path1 |-> endpoints[i].path, path2 |-> endpoints[j].path]

\* The method condition of the single check on entry i.
MethodCond(i) ==
    method = <<>> \/ includes(endpoints[i].methods, toLowerCase(method))
\* The path condition on entry i, comparing with the normalized key.
PathCond(i) ==
    \/ normalizePath(pathToCheck) = normalizePath(endpoints[i].path)
    \/ ShapeCovers(normalizePath(endpoints[i].path), normalizePath(pathToCheck))
\* The path condition on entry i, comparing with the key as stored.
PathCondStored(i) ==
    \/ normalizePath(pathToCheck) = endpoints[i].path
    \/ ShapeCovers(endpoints[i].path, normalizePath(pathToCheck))
Matching == {i \in 1..Len(endpoints) : PathCond(i) /\ MethodCond(i)}
MatchingStored == {i \in 1..Len(endpoints) : PathCondStored(i) /\ MethodCond(i)}

\* The pairs i < j whose normalized keys overlap, key j being the existing side.
OverlapPairs ==
    {p \in (1..Len(endpoints)) \X (1..Len(endpoints)) :
        /\ p[1] < p[2]
        /\ ShapeCovers(normalizePath(endpoints[p[2]].path),
                       normalizePath(endpoints[p[1]].path))}
\* The pairs i < j whose keys as stored overlap, key j being the existing side.
OverlapPairsStored ==
    {p \in (1..Len(endpoints)) \X (1..Len(endpoints)) :
        /\ p[1] < p[2]
        /\ ShapeCovers(endpoints[p[2]].path, endpoints[p[1]].path)}
\* The pairs i < j whose normalized keys overlap, key j being the existing
\* side and its normalized form not being the empty string.
ReportedPairs ==
    {p \in OverlapPairs : normalizePath(endpoints[p[2]].path) # <<>>}
Before(p, q) == p[1] < q[1] \/ (p[1] = q[1] /\ p[2] < q[2])
Rank(p, S) == Cardinality({q \in S : Before(q, p)}) + 1

\* The trees with the keys of `tree`, in the same order, and any method lists.
Remethoded(tree) ==
    {[i \in 1..Len(tree) |-> [path |-> tree[i].path, methods |-> ms[i]]] :
        ms \in [1..Len(tree) -> MethodLists]}

-----------------------------------------------------------------------------
(* Claims *)

\* C1 (as claimed): the scan reports (key_i, key_j), i before j, whenever the
\* two keys have the same number of segments and at every position the
\* segments are equal or key_i's segment is a parameter; for the keys
\* "/a/{id}", "/a/b", "/c" the result is the one record ("/a/{id}", "/a/b").
C1_ParameterFirstReported ==
    AllDone =>
        /\ \A i, j \in 1..Len(endpoints) :
              (i < j /\ ShapeCovers(endpoints[i].path, endpoints[j].path))
                  => \E n \in 1..Len(internalOverlaps) : internalOverlaps[n] = Record(i, j)
        /\ (Len(endpoints) = 3 /\ endpoints[1].path = S_a_id
              /\ endpoints[2].path = S_a_b /\ endpoints[3].path = S_c)
              => internalOverlaps = <<[path1 |-> S_a_id, path2 |-> S_a_b]>>

\* C2 (as claimed): normalizing a path twice gives the same string as
\* normalizing it once, for the path to check and for every declared key.
C2_NormalizeIdempotent ==
    pc = "done" =>
    \A p \in {pathToCheck} \cup {Declared[i].path : i \in 1..Len(Declared)} :
        normalizePath(normalizePath(p)) = normalizePath(p)

\* C3 (as claimed): extraction fails when the document object has no paths
\* collection, and returns an empty tree when the collection is empty.
C3_FailsWithoutPaths ==
    (pc # "start" /\ swaggerObject.kind = "object") =>
        /\ ~swaggerObject.hasPaths => pc = "error"
        /\ (swaggerObject.hasPaths /\ swaggerObject.paths = <<>>)
              => (pc # "error" /\ endpoints = <<>>)

\* C3 (amended): extraction does not fail when the document object has no
\* paths collection; as with an empty collection, it returns the empty
\* tree.  It fails when the document itself is null (and when a declared
\* key shadows the hasOwnProperty method of the paths object).
C3_EmptyTreeWithoutPaths ==
    pc # "start" =>
        /\ pc = "error" <=>
              (swaggerObject.kind = "null" \/ DeclaresKey(S_hasOwnProperty))
        /\ (swaggerObject.kind = "object"
              /\ (~swaggerObject.hasPaths \/ swaggerObject.paths = <<>>))
              => (pc # "error" /\ endpoints = <<>> /\ output # "Error")

C3_Witness ==
    /\ pc = "extracted"
    /\ swaggerObject.kind = "object"
    /\ ~swaggerObject.hasPaths
    /\ endpoints = <<>>

\* C4 (as claimed): the single check returns the key of the first entry whose
\* stored key equals the normalized candidate or overlaps it by segments and
\* whose method condition holds, and none iff there is no such entry.
C4_FirstStoredKey ==
    SingleDone =>
        IF MatchingStored = {} THEN overlappingPath = JsFalse
        ELSE overlappingPath = JsString(endpoints[Min(MatchingStored)].path)

\* C4 (amended): the single check compares the normalized candidate with the
\* normalized form of each key and returns the normalized form of the key of
\* the first entry, in insertion order, that satisfies the path and the
\* method condition; it returns false iff no entry satisfies both.
C4_FirstNormalizedKey ==
    SingleDone =>
        IF Matching = {} THEN overlappingPath = JsFalse
        ELSE overlappingPath = JsString(normalizePath(endpoints[Min(Matching)].path))

C4_Witness ==
    /\ SingleDone
    /\ Len(endpoints) >= 2
    /\ {1, 2} \subseteq Matching
    /\ HasTrailingSlash(endpoints[1].path)
    /\ normalizePath(endpoints[1].path) # normalizePath(endpoints[2].path)
    /\ overlappingPath = JsString(normalizePath(endpoints[1].path))

\* C5: the single check returns an entry's (normalized) key only if the
\* method is absent or its lower-cased form is one of that entry's stored
\* tokens, compared exactly; "/a/b" against {"/a/{id}": [get, post]} gives
\* none with "delete" and "/a/{id}" with "get" or "GET", and a stored "GET"
\* is never matched.
C5_MethodGate ==
    SingleDone =>
        /\ overlappingPath.type = "string" =>
              \E i \in 1..Len(endpoints) :
                  /\ overlappingPath.str = normalizePath(endpoints[i].path)
                  /\ PathCond(i)
                  /\ MethodCond(i)
        /\ (method # <<>> /\ \A i \in 1..Len(endpoints) : ~MethodCond(i))
              => overlappingPath = JsFalse
        /\ (pathToCheck = S_a_b /\ Len(endpoints) = 1 /\ endpoints[1].path = S_a_id) =>
              /\ (endpoints[1].methods = <<M_get, M_post>> /\ method = M_delete)
                    => overlappingPath = JsFalse
              /\ (endpoints[1].methods = <<M_get, M_post>> /\ method \in {M_get, M_GET, M_POST})
                    => overlappingPath = JsString(S_a_id)
              /\ (endpoints[1].methods = <<M_GET>> /\ method # <<>>)
                    => overlappingPath = JsFalse

C5_Witness ==
    /\ SingleDone
    /\ pathToCheck = S_a_b
    /\ method = M_delete
    /\ endpoints = <<[path |-> S_a_id, methods |-> <<M_get, M_post>>]>>
    /\ overlappingPath = JsFalse

\* C6 (as claimed): every key of the extracted tree has no trailing '/', no
\* two entries share a key, and each entry holds the declared method keys.
C6_KeysNormalized ==
    pc \in {"extracted", "done"} =>
        /\ \A i \in 1..Len(endpoints) : ~HasTrailingSlash(endpoints[i].path)
        /\ \A i, j \in 1..Len(endpoints) :
              i # j => endpoints[i].path # endpoints[j].path
        /\ \A i \in 1..Len(endpoints) :
              \E j \in 1..Len(Declared) :
                  /\ Declared[j].path = endpoints[i].path
                  /\ Declared[j].methods = endpoints[i].methods

\* C6 (amended): the keys of the extracted tree are declared path strings
\* exactly as written (a trailing '/' is kept), in declaration order, and
\* every declared key other than "__proto__" is among them; no two entries
\* share a key, and each entry holds the declared method keys unchanged.
C6_KeysVerbatim ==
    pc \in {"extracted", "done"} =>
        /\ Len(endpoints) = Len(Storable)
        /\ \A i \in 1..Len(endpoints) :
              /\ endpoints[i].path = Storable[i].path
              /\ endpoints[i].methods = Storable[i].methods
        /\ \A i, j \in 1..Len(endpoints) :
              i # j => endpoints[i].path # endpoints[j].path

C6_Witness ==
    /\ pc = "extracted"
    /\ \E i \in 1..Len(endpoints) :
          /\ HasTrailingSlash(endpoints[i].path)
          /\ endpoints[i].methods = <<M_GET>>

\* C7 (as claimed): the scan returns exactly the records (key_i, key_j) of
\* the pairs i < j for which segmentsOverlap(key_i, key_j) holds of the keys
\* of the index, ordered by i and then by j.
C7_ExactlyStoredOverlapPairs ==
    AllDone =>
        /\ Len(internalOverlaps) = Cardinality(OverlapPairsStored)
        /\ \A p \in OverlapPairsStored :
              internalOverlaps[Rank(p, OverlapPairsStored)] = Record(p[1], p[2])

\* C7 (amended): the scan returns exactly the records (key_i, key_j) of the
\* pairs i < j for which segmentsOverlap holds of the normalized forms of
\* key_i and key_j and the normalized form of key_j is not the empty
\* string, ordered by i and then by j; path1 precedes path2 in insertion
\* order, no key is paired with itself and no pair appears twice.
C7_ExactlyReportedPairs ==
    AllDone =>
        /\ Len(internalOverlaps) = Cardinality(ReportedPairs)
        /\ \A p \in ReportedPairs :
              internalOverlaps[Rank(p, ReportedPairs)] = Record(p[1], p[2])
        /\ \A n \in 1..Len(internalOverlaps) :
              internalOverlaps[n].path1 # internalOverlaps[n].path2
        /\ \A n, k \in 1..Len(internalOverlaps) :
              n # k => internalOverlaps[n] # internalOverlaps[k]

C7_Witness ==
    /\ AllDone
    /\ Len(endpoints) = 3
    /\ HasTrailingSlash(endpoints[2].path)
    /\ internalOverlaps = <<Record(1, 2), Record(1, 3), Record(2, 3)>>

\* C8: the scan gives the same list for every tree with the same keys in the
\* same order, whatever the method lists.
C8_MethodAgnostic ==
    AllDone =>
        \A other \in Remethoded(endpoints) :
            findOverlappingEndpoints(other) = internalOverlaps

C8_Witness ==
    /\ AllDone
    /\ Len(endpoints) = 2
    /\ endpoints[1].methods = <<M_GET>>
    /\ endpoints[2].methods = <<M_get, M_post>>
    /\ internalOverlaps = <<Record(1, 2)>>

\* C9: pathIncludesSegments(candidate, existing) holds iff both paths have
\* the same number of segments and at each position the segments are equal
\* or the existing one begins with '{'; a parameter on the candidate side
\* absorbs nothing.
C9_SegmentsOverlap ==
    /\ SingleDone =>
          /\ \A c \in {pathToCheck, normalizePath(pathToCheck)} :
                \A e \in Keys \cup {normalizePath(k) : k \in Keys} :
                    pathIncludesSegments(c, e) <=> ShapeCovers(e, c)
          /\ \A i \in 1..Len(endpoints) :
                (overlappingPath = JsFalse /\ MethodCond(i))
                    => ~ShapeCovers(normalizePath(endpoints[i].path),
                                    normalizePath(pathToCheck))
    /\ AllDone =>
          \A c, e \in Keys : pathIncludesSegments(c, e) <=> ShapeCovers(e, c)
    /\ pc = "start" =>
          /\ pathIncludesSegments(S_a_b, S_a_id)
          /\ ~pathIncludesSegments(S_a_id, S_a_b)
          /\ ~pathIncludesSegments(S_a_b_c, S_a_b)

C9_Witness ==
    /\ SingleDone
    /\ pathToCheck = S_a_id
    /\ method = M_get
    /\ endpoints = <<[path |-> S_a_b, methods |-> <<M_get, M_post>>]>>
    /\ overlappingPath = JsFalse

\* C10 (as claimed): when some entry satisfies the path and the method
\* condition, the single check reports an overlap; and every pair that
\* isPathOverlapping matches in the scan is listed.
C10_MatchReported ==
    /\ (SingleDone /\ Matching # {}) => output = "overlaps"
    /\ AllDone => Len(internalOverlaps) = Cardinality(OverlapPairs)

====
